---- MODULE Spec2Model ----
(***************************************************************************)
(* The adaptive multi-endpoint request client of src/services/musicApi.ts: *)
(* the per-module cache of the fastest mirror (moduleBestBases and its     *)
(* localStorage keys), fetchWithFailover (fast path, then batches raced    *)
(* with promiseAny), refreshModuleApiNode (the speed test) and the resets. *)
(*                                                                         *)
(* One step of the model is one turn of the JavaScript event loop: the     *)
(* arrival of a network event (response headers, response body, abort or   *)
(* network error) or a call from the UI, together with the whole chain of  *)
(* promise reactions that it triggers synchronously.                       *)
(***************************************************************************)
EXTENDS Integers, Sequences, FiniteSets, TLC

\* ------------------------------------------------------------------ bounds
\* Size of the mirror pool API_BASES (9 entries in the source).
NumBases == 3
\* Batch size of the race path (5 in the source, scaled with the pool).
BATCH_SIZE == 2
\* Number of calls (fetchWithFailover or refreshModuleApiNode) of one session.
MaxCalls == 2
\* Largest number of promises handed to one promiseAny taken alone.
MaxOps == 3

\* --------------------------------------------------------------- constants
\* null of moduleBestBases / a missing localStorage key.
Null == 0
\* API_BASES: the mirrors, named by their position in the list.
API_BASES == 1 .. NumBases
\* A persisted string that names no mirror of API_BASES.
NotInPool == NumBases + 1
\* ApiModule (two of the six modules).
Modules == {"playlist", "search"}
Calls == 1 .. MaxCalls
\* The modules in the order of Object.keys(API_MODULE_NAMES).
ModuleOrder == <<"playlist", "search">>
\* The promises handed to promiseAny, named by their position.
Ops == 1 .. MaxOps

\* What the localStorage key of a module may hold when the page is loaded.
StoredAtStart == {Null, NotInPool, 1}

\* HTTP statuses a mirror answers with.
Statuses == {200, 404}
\* Values of the top-level code field of a JSON body.
Codes == {0, 200, 500}
\* Response bodies: unparsable, without code field, with code field v.
BodiesOver(codes) ==
  {[json |-> FALSE, hasCode |-> FALSE, code |-> 0],
   [json |-> TRUE, hasCode |-> FALSE, code |-> 0]}
  \cup {[json |-> TRUE, hasCode |-> TRUE, code |-> v] : v \in codes}
Bodies == BodiesOver(Codes)

VARIABLES
  moduleBestBases,  \* [Modules -> API_BASES \cup {Null}], the in-memory cache
  localStorage,     \* [Modules -> stored value], the keys vinyl_api_<module>
  calls,            \* [Calls -> record], the invocations of fetchWithFailover
                    \* and of refreshModuleApiNode, with their requests
  storageThrows,    \* whether localStorage throws in this browser session
  observed,         \* ghost: one response and how it was classified
  race,             \* one promiseAny taken alone, with the loop that calls it
  queueDrawer       \* the speed test of QueueDrawer: refreshingModule and
                    \* the modules its refresh-all loop has still to visit

vars == <<moduleBestBases, localStorage, calls, storageThrows, observed, race, queueDrawer>>

\* ------------------------------------------------------- pure helpers
\* Response.ok of the fetch API: status in 200..299.
ResOk(status) == status >= 200 /\ status <= 299

\* JavaScript truthiness of a numeric code field.
Truthy(v) == v # 0

\* `data.code && data.code !== 200`: the body signals a logical API error.
ApiError(body) == body.hasCode /\ Truthy(body.code) /\ body.code # 200

\* The two checks of one attempt: res.ok, then res.json() and the code field.
AttemptSucceeds(status, body) == ResOk(status) /\ body.json /\ ~ApiError(body)

\* A request that has not yet delivered a parsed response or failed.
Pending(phase) == phase \in {"headers", "body"}

\* Fault: the slice keeps the mirrors of the earlier batches.
BatchFromZero(i) == {b \in API_BASES : b <= i + BATCH_SIZE}

\* allCandidates.slice(i, i + BATCH_SIZE), i counted from 0.
Batch(i) == {b \in API_BASES : b > i /\ b <= i + BATCH_SIZE}

\* Fault: the saved value is taken without looking it up in API_BASES.
loadModuleBestBasesUnvalidated(saved, throws) ==
  IF ~throws THEN saved ELSE Null

\* loadModuleBestBases for one module: the saved value if it is in API_BASES,
\* null if it is not or if localStorage.getItem throws.
loadModuleBestBases(saved, throws) ==
  IF ~throws /\ saved # Null /\ saved \in API_BASES THEN saved ELSE Null

\* saveModuleBestBase: <<memory, store>> after the call; a throwing
\* localStorage.setItem is swallowed by the empty catch.
saveModuleBestBase(mem, store, module, base, throws) ==
  << [mem EXCEPT ![module] = base],
     IF throws THEN store ELSE [store EXCEPT ![module] = base] >>

\* Fault: the reset of one module clears every module.
resetModuleApiNodeAll(mem, store, module, throws) ==
  << [m \in Modules |-> Null],
     IF throws THEN store ELSE [m \in Modules |-> Null] >>

\* resetModuleApiNode: <<memory, store>> after the call; a throwing
\* localStorage.removeItem is swallowed by the empty catch.
resetModuleApiNode(mem, store, module, throws) ==
  << [mem EXCEPT ![module] = Null],
     IF throws THEN store ELSE [store EXCEPT ![module] = Null] >>

\* Fault: the catch of the fast path leaves the entry in place.
InvalidateFastSkipped(mem, module) == mem

\* The catch of the fast path: moduleBestBases[module] = null, memory only.
InvalidateFast(mem, module) == [mem EXCEPT ![module] = Null]

\* The guard of the race task before it saves: !moduleBestBases[module].
MaySave(mem, module) == mem[module] = Null

\* ------------------------------------------------------------ initial state
IdleCall ==
  [kind |-> "none", pc |-> "idle", module |-> "none", cachedBase |-> Null, fast |-> "none",
   i |-> 0, req |-> [b \in API_BASES |-> "none"], errors |-> << >>,
   lastError |-> "none", winner |-> Null, via |-> "none",
   thrownErrors |-> << >>, sentFast |-> 0,
   sentRace |-> [b \in API_BASES |-> 0], overlap |-> {}]

NoObservation ==
  [kind |-> "none", status |-> 0, body |-> [json |-> FALSE, hasCode |-> FALSE, code |-> 0],
   accepted |-> FALSE]

\* No promiseAny taken alone.
NoRace ==
  [caller |-> "none", n |-> 0, i |-> 0, op |-> [p \in Ops |-> "none"],
   state |-> "none", value |-> 0, fulfilledOrder |-> << >>, rejectedCount |-> 0,
   errors |-> << >>, rejection |-> [message |-> "none", errors |-> << >>],
   outcome |-> "none"]

\* useState<ApiModule | null>(null), and no refresh-all loop running.
DrawerIdle == [refreshingModule |-> "none", pending |-> << >>]

Init ==
  /\ storageThrows \in BOOLEAN
  /\ localStorage \in [Modules -> IF storageThrows THEN {Null} ELSE StoredAtStart]
  /\ moduleBestBases =
       [m \in Modules |-> loadModuleBestBases(localStorage[m], storageThrows)]
  /\ calls = [k \in Calls |-> IdleCall]
  /\ observed = NoObservation
  /\ race = NoRace
  /\ queueDrawer = DrawerIdle

\* ------------------------------------------------- fetchWithFailover
\* One batch of the for loop: a fetchWithTimeout per mirror of the batch and
\* a fresh promiseAny (rejectedCount = 0, errors = []).
StartBatch(cr, i) ==
  [cr EXCEPT !.pc = "race", !.i = i, !.errors = << >>,
             !.req = [b \in API_BASES |->
                        IF b \in Batch(i) THEN "headers" ELSE cr.req[b]],
             !.sentRace = [b \in API_BASES |->
                        IF b \in Batch(i) THEN cr.sentRace[b] + 1
                        ELSE cr.sentRace[b]]]

\* After the loop: throw new Error("...") - a message, no recorded failures.
Throw(cr) == [cr EXCEPT !.pc = "thrown", !.thrownErrors = << >>]

\* The for loop from offset i: the next batch, or the final throw.
RaceFrom(cr, i) == IF i < NumBases THEN StartBatch(cr, i) ELSE Throw(cr)

\* Call k goes on as record cr; when it enters the race path the ghost field
\* overlap notes the calls that are in their race path at the same time.
Enter(k, cr) ==
  LET entering == calls[k].pc # "race" /\ cr.pc = "race"
      racing == {j \in Calls \ {k} : calls[j].pc = "race"}
  IN [j \in Calls |->
        IF j = k THEN (IF entering THEN [cr EXCEPT !.overlap = racing] ELSE cr)
        ELSE IF entering /\ j \in racing
             THEN [calls[j] EXCEPT !.overlap = @ \cup {k}]
             ELSE calls[j]]

\* The calls are numbered in the order in which they are made.
InStartOrder(k) == \A j \in Calls : j < k => calls[j].pc # "idle"

\* The call slots that the running refresh-all loop still needs are kept
\* for it.
SlotFree(k) == k + Len(queueDrawer.pending) <= MaxCalls

\* Fault: the first batch is started together with the fast request.
StartRequestHedged(k, module) ==
  /\ calls[k].pc = "idle"
  /\ InStartOrder(k)
  /\ SlotFree(k)
  /\ LET cachedBase == moduleBestBases[module]
         cr == [calls[k] EXCEPT !.kind = "request", !.module = module,
                                !.cachedBase = cachedBase]
     IN IF cachedBase # Null
        THEN calls' = Enter(k, [StartBatch(cr, 0) EXCEPT
                                  !.pc = "fast", !.fast = "headers", !.sentFast = 1])
        ELSE calls' = Enter(k, RaceFrom(cr, 0))
  /\ UNCHANGED <<moduleBestBases, localStorage, storageThrows, observed, race, queueDrawer>>

\* fetchWithFailover(path, module) up to its first await.
StartRequest(k, module) ==
  /\ calls[k].pc = "idle"
  /\ InStartOrder(k)
  /\ SlotFree(k)
  /\ LET cachedBase == moduleBestBases[module]
         cr == [calls[k] EXCEPT !.kind = "request", !.module = module,
                                !.cachedBase = cachedBase]
     IN IF cachedBase # Null
        THEN calls' = Enter(k, [cr EXCEPT !.pc = "fast", !.fast = "headers",
                                          !.sentFast = 1])
        ELSE calls' = Enter(k, RaceFrom(cr, 0))
  /\ UNCHANGED <<moduleBestBases, localStorage, storageThrows, observed, race, queueDrawer>>

\* Fault: the failure of the fast request is thrown to the caller.
FastCatchThrows(k) ==
  /\ moduleBestBases' = InvalidateFast(moduleBestBases, calls[k].module)
  /\ calls' = [calls EXCEPT ![k] = Throw([calls[k] EXCEPT !.fast = "fail"])]
  /\ UNCHANGED <<localStorage, storageThrows, observed, race, queueDrawer>>

\* The catch block of the fast path, then the race path.
FastCatch(k) ==
  /\ moduleBestBases' = InvalidateFast(moduleBestBases, calls[k].module)
  /\ calls' = Enter(k, RaceFrom([calls[k] EXCEPT !.fast = "fail"], 0))
  /\ UNCHANGED <<localStorage, storageThrows, observed, race, queueDrawer>>

\* The fast request is aborted by its timer or fails in the network.
FastFetchFails(k) ==
  /\ calls[k].pc = "fast" /\ calls[k].fast = "headers"
  /\ FastCatch(k)

\* The response headers of the fast request arrive (the timer is cleared).
FastHeaders(k, status) ==
  /\ calls[k].pc = "fast" /\ calls[k].fast = "headers"
  /\ IF ResOk(status)
     THEN /\ calls' = [calls EXCEPT ![k].fast = "body"]
          /\ UNCHANGED <<moduleBestBases, localStorage, storageThrows, observed, race, queueDrawer>>
     ELSE FastCatch(k)

\* res.json() of the fast request settles.
FastBody(k, body) ==
  /\ calls[k].pc = "fast" /\ calls[k].fast = "body"
  /\ IF AttemptSucceeds(200, body)
     THEN /\ calls' = [calls EXCEPT ![k].fast = "ok", ![k].pc = "returned",
                                    ![k].winner = calls[k].cachedBase,
                                    ![k].via = "fast"]
          /\ UNCHANGED <<moduleBestBases, localStorage, storageThrows, observed, race, queueDrawer>>
     ELSE FastCatch(k)

\* Fault: the loop goes to the next batch at the first task that rejects.
TaskRejectsMovesOn(k, b) ==
  LET cr == [calls[k] EXCEPT !.req[b] = "fail", !.errors = Append(@, b)]
  IN /\ calls' = IF calls[k].pc = "race" /\ b \in Batch(cr.i)
                 THEN Enter(k, RaceFrom([cr EXCEPT !.lastError = "AllRejected"],
                                        cr.i + BATCH_SIZE))
                 ELSE [calls EXCEPT ![k] = cr]
     /\ UNCHANGED <<moduleBestBases, localStorage, storageThrows, observed, race, queueDrawer>>

\* A race task rejects: promiseAny counts it and, when the whole batch has
\* rejected, rejects itself; the loop then goes to the next batch or throws.
TaskRejects(k, b) ==
  LET cr == [calls[k] EXCEPT !.req[b] = "fail", !.errors = Append(@, b)]
  IN /\ calls' = IF Len(cr.errors) = Cardinality(Batch(cr.i))
                 THEN Enter(k, RaceFrom([cr EXCEPT !.lastError = "AllRejected"],
                                        cr.i + BATCH_SIZE))
                 ELSE [calls EXCEPT ![k] = cr]
     /\ UNCHANGED <<moduleBestBases, localStorage, storageThrows, observed, race, queueDrawer>>

\* A raced request is aborted by its timer or fails in the network.
RaceFetchFails(k, b) ==
  /\ calls[k].kind = "request" /\ calls[k].req[b] = "headers"
  /\ TaskRejects(k, b)

\* Fault: the mirror is saved when its headers arrive, before the body is
\* read and its code field checked.
RaceHeadersSavesEarly(k, b, status) ==
  /\ calls[k].kind = "request" /\ calls[k].req[b] = "headers"
  /\ IF ResOk(status)
     THEN LET saved == saveModuleBestBase(moduleBestBases, localStorage,
                                          calls[k].module, b, storageThrows)
          IN /\ calls' = [calls EXCEPT ![k].req[b] = "body"]
             /\ moduleBestBases' = saved[1]
             /\ localStorage' = saved[2]
             /\ UNCHANGED <<storageThrows, observed, race, queueDrawer>>
     ELSE TaskRejects(k, b)

\* The response headers of a raced request arrive (the timer is cleared).
RaceHeaders(k, b, status) ==
  /\ calls[k].kind = "request" /\ calls[k].req[b] = "headers"
  /\ IF ResOk(status)
     THEN /\ calls' = [calls EXCEPT ![k].req[b] = "body"]
          /\ UNCHANGED <<moduleBestBases, localStorage, storageThrows, observed, race, queueDrawer>>
     ELSE TaskRejects(k, b)

\* Fault: the winner aborts the requests of its batch that are still running.
RaceBodyAbortsLosers(k, b, body) ==
  /\ calls[k].kind = "request" /\ calls[k].req[b] = "body"
  /\ IF AttemptSucceeds(200, body)
     THEN LET module == calls[k].module
              saved == saveModuleBestBase(moduleBestBases, localStorage,
                                          module, b, storageThrows)
          IN /\ IF MaySave(moduleBestBases, module)
                THEN /\ moduleBestBases' = saved[1]
                     /\ localStorage' = saved[2]
                ELSE UNCHANGED <<moduleBestBases, localStorage>>
             /\ calls' = [calls EXCEPT
                            ![k].req = [c \in API_BASES |->
                                          IF c = b THEN "ok"
                                          ELSE IF Pending(calls[k].req[c]) THEN "fail"
                                          ELSE calls[k].req[c]],
                            ![k].pc = "returned",
                            ![k].winner = b, ![k].via = "race"]
             /\ UNCHANGED <<storageThrows, observed, race, queueDrawer>>
     ELSE TaskRejects(k, b)

\* Fault: the loop goes on to the next batch after a batch has been won.
RaceBodyKeepsRacing(k, b, body) ==
  /\ calls[k].kind = "request" /\ calls[k].req[b] = "body"
  /\ IF AttemptSucceeds(200, body)
     THEN LET module == calls[k].module
              saved == saveModuleBestBase(moduleBestBases, localStorage,
                                          module, b, storageThrows)
              won == [calls[k] EXCEPT !.req[b] = "ok", !.winner = b, !.via = "race"]
          IN /\ IF MaySave(moduleBestBases, module)
                THEN /\ moduleBestBases' = saved[1]
                     /\ localStorage' = saved[2]
                ELSE UNCHANGED <<moduleBestBases, localStorage>>
             /\ calls' = [calls EXCEPT ![k] =
                            IF calls[k].pc = "race" /\ calls[k].i + BATCH_SIZE < NumBases
                            THEN [StartBatch(won, calls[k].i + BATCH_SIZE)
                                    EXCEPT !.pc = "returned"]
                            ELSE [won EXCEPT !.pc = "returned"]]
             /\ UNCHANGED <<storageThrows, observed, race, queueDrawer>>
     ELSE TaskRejects(k, b)

\* res.json() of a raced request settles. A good body makes the task save
\* its mirror if the module has none, and resolves promiseAny if it is still
\* pending, which makes fetchWithFailover return this body.
RaceBody(k, b, body) ==
  /\ calls[k].kind = "request" /\ calls[k].req[b] = "body"
  /\ IF AttemptSucceeds(200, body)
     THEN LET module == calls[k].module
              saved == saveModuleBestBase(moduleBestBases, localStorage,
                                          module, b, storageThrows)
          IN /\ IF MaySave(moduleBestBases, module)
                THEN /\ moduleBestBases' = saved[1]
                     /\ localStorage' = saved[2]
                ELSE UNCHANGED <<moduleBestBases, localStorage>>
             /\ calls' = IF calls[k].pc = "race"
                         THEN [calls EXCEPT ![k].req[b] = "ok",
                                            ![k].pc = "returned",
                                            ![k].winner = b, ![k].via = "race"]
                         ELSE [calls EXCEPT ![k].req[b] = "ok"]
             /\ UNCHANGED <<storageThrows, observed, race, queueDrawer>>
     ELSE TaskRejects(k, b)

\* ----------------------------------------------------------- the resets
\* resetModuleApiNode(module), called from the UI.
ResetModule(module) ==
  LET cleared == resetModuleApiNode(moduleBestBases, localStorage, module,
                                    storageThrows)
  IN /\ moduleBestBases' = cleared[1]
     /\ localStorage' = cleared[2]
     /\ UNCHANGED <<calls, storageThrows, observed, race, queueDrawer>>

\* resetBestApiNode: resetModuleApiNode for every module in turn.
resetBestApiNode(mem, store, throws) ==
  << [m \in Modules |-> resetModuleApiNode(mem, store, m, throws)[1][m]],
     [m \in Modules |-> resetModuleApiNode(mem, store, m, throws)[2][m]] >>

ResetAll ==
  LET cleared == resetBestApiNode(moduleBestBases, localStorage, storageThrows)
  IN /\ moduleBestBases' = cleared[1]
     /\ localStorage' = cleared[2]
     /\ UNCHANGED <<calls, storageThrows, observed, race, queueDrawer>>

\* ------------------------------------------------ refreshModuleApiNode
\* disabled={refreshingModule !== null}: the buttons of the speed test are
\* disabled while a refresh started from them is running.
RefreshRunning == queueDrawer.refreshingModule # "none"

\* Fault: only the mirrors of the first batch are probed.
ProbesFirstBatch(cr, module) ==
  [cr EXCEPT !.kind = "refresh", !.module = module, !.pc = "race",
             !.req = [b \in API_BASES |->
                        IF b \in Batch(0) THEN "headers" ELSE "none"],
             !.sentRace = [b \in API_BASES |-> IF b \in Batch(0) THEN 1 ELSE 0]]

\* API_BASES.map(...): one probe per mirror, all in one promiseAny.
Probes(cr, module) ==
  [cr EXCEPT !.kind = "refresh", !.module = module, !.pc = "race",
             !.req = [b \in API_BASES |-> "headers"],
             !.sentRace = [b \in API_BASES |-> 1]]

\* The first call slot not yet used in cs.
NextSlot(cs) ==
  CHOOSE j \in Calls :
    cs[j].pc = "idle" /\ \A i \in Calls : i < j => cs[i].pc # "idle"

\* Fault: the loop does not await: every module is refreshed at once.
StartRefreshAllAtOnce(k) ==
  /\ calls[k].pc = "idle"
  /\ InStartOrder(k)
  /\ ~RefreshRunning
  /\ k + Len(ModuleOrder) - 1 <= MaxCalls
  /\ moduleBestBases' = [m \in Modules |-> Null]
  /\ localStorage' = IF storageThrows THEN localStorage
                     ELSE [m \in Modules |-> Null]
  /\ calls' = [j \in Calls |->
                IF j >= k /\ j < k + Len(ModuleOrder)
                THEN Probes(calls[j], ModuleOrder[j - k + 1]) ELSE calls[j]]
  /\ queueDrawer' = [refreshingModule |-> ModuleOrder[Len(ModuleOrder)],
                     pending |-> << >>]
  /\ UNCHANGED <<storageThrows, observed, race>>

\* refreshModuleApiNode(module) up to its await: the entry is cleared in
\* memory and in the store, then every mirror is probed in one promiseAny.
\* The click handler of the button of one module.
StartRefresh(k, module) ==
  /\ calls[k].pc = "idle"
  /\ InStartOrder(k)
  /\ ~RefreshRunning
  /\ LET cleared == resetModuleApiNode(moduleBestBases, localStorage, module,
                                       storageThrows)
     IN /\ moduleBestBases' = cleared[1]
        /\ localStorage' = cleared[2]
        /\ calls' = [calls EXCEPT ![k] = Probes(calls[k], module)]
        /\ queueDrawer' = [refreshingModule |-> module, pending |-> << >>]
  /\ UNCHANGED <<storageThrows, observed, race>>

\* The click handler of the refresh-all button up to its first await: the
\* loop over the modules starts the refresh of the first one.
StartRefreshAll(k) ==
  /\ calls[k].pc = "idle"
  /\ InStartOrder(k)
  /\ ~RefreshRunning
  /\ k + Len(ModuleOrder) - 1 <= MaxCalls
  /\ LET module == Head(ModuleOrder)
         cleared == resetModuleApiNode(moduleBestBases, localStorage, module,
                                       storageThrows)
     IN /\ moduleBestBases' = cleared[1]
        /\ localStorage' = cleared[2]
        /\ calls' = [calls EXCEPT ![k] = Probes(calls[k], module)]
        /\ queueDrawer' = [refreshingModule |-> module,
                           pending |-> Tail(ModuleOrder)]
  /\ UNCHANGED <<storageThrows, observed, race>>

\* refreshModuleApiNode has returned, with the calls cs, the memory mem and
\* the store as it left them: the click handler goes on after its await. The
\* loop of refresh-all starts the refresh of its next module; after the last
\* module, and after the refresh of a single module, setRefreshingModule(null).
RefreshReturned(cs, mem, store) ==
  IF queueDrawer.pending = << >>
  THEN /\ calls' = cs
       /\ moduleBestBases' = mem
       /\ localStorage' = store
       /\ queueDrawer' = DrawerIdle
  ELSE LET module == Head(queueDrawer.pending)
           j == NextSlot(cs)
           cleared == resetModuleApiNode(mem, store, module, storageThrows)
       IN /\ calls' = [cs EXCEPT ![j] = Probes(cs[j], module)]
          /\ moduleBestBases' = cleared[1]
          /\ localStorage' = cleared[2]
          /\ queueDrawer' = [refreshingModule |-> module,
                             pending |-> Tail(queueDrawer.pending)]

\* Fault: refreshModuleApiNode returns null at the first probe that rejects.
ProbeRejectsEarly(k, b) ==
  LET cr == [calls[k] EXCEPT !.req[b] = "fail", !.errors = Append(@, b)]
  IN IF calls[k].pc = "race"
     THEN /\ RefreshReturned(
               [calls EXCEPT ![k] = [cr EXCEPT !.pc = "returned", !.winner = Null,
                                               !.via = "null",
                                               !.lastError = "AllRejected"]],
               moduleBestBases, localStorage)
          /\ UNCHANGED <<storageThrows, observed, race>>
     ELSE /\ calls' = [calls EXCEPT ![k] = cr]
          /\ UNCHANGED <<moduleBestBases, localStorage, storageThrows, observed,
                         race, queueDrawer>>

\* A probe rejects; when every probe has rejected promiseAny rejects and
\* refreshModuleApiNode returns null.
ProbeRejects(k, b) ==
  LET cr == [calls[k] EXCEPT !.req[b] = "fail", !.errors = Append(@, b)]
  IN IF Len(cr.errors) = NumBases
     THEN /\ RefreshReturned(
               [calls EXCEPT ![k] = [cr EXCEPT !.pc = "returned", !.winner = Null,
                                               !.via = "null",
                                               !.lastError = "AllRejected"]],
               moduleBestBases, localStorage)
          /\ UNCHANGED <<storageThrows, observed, race>>
     ELSE /\ calls' = [calls EXCEPT ![k] = cr]
          /\ UNCHANGED <<moduleBestBases, localStorage, storageThrows, observed,
                         race, queueDrawer>>

\* A probe is aborted by its timer or fails in the network.
ProbeFetchFails(k, b) ==
  /\ calls[k].kind = "refresh" /\ calls[k].req[b] = "headers"
  /\ ProbeRejects(k, b)

\* The response headers of a probe arrive (the timer is cleared).
ProbeHeaders(k, b, status) ==
  /\ calls[k].kind = "refresh" /\ calls[k].req[b] = "headers"
  /\ IF ResOk(status)
     THEN /\ calls' = [calls EXCEPT ![k].req[b] = "body"]
          /\ UNCHANGED <<moduleBestBases, localStorage, storageThrows, observed,
                         race, queueDrawer>>
     ELSE ProbeRejects(k, b)

\* Fault: the refresh saves the first mirror of the pool, not the winner.
ProbeBodySavesFirst(k, b, body) ==
  /\ calls[k].kind = "refresh" /\ calls[k].req[b] = "body"
  /\ IF AttemptSucceeds(200, body)
     THEN IF calls[k].pc = "race"
          THEN LET saved == saveModuleBestBase(moduleBestBases, localStorage,
                                               calls[k].module, 1, storageThrows)
               IN /\ RefreshReturned(
                       [calls EXCEPT ![k].req[b] = "ok", ![k].pc = "returned",
                                     ![k].winner = b, ![k].via = "race"],
                       saved[1], saved[2])
                  /\ UNCHANGED <<storageThrows, observed, race>>
          ELSE /\ calls' = [calls EXCEPT ![k].req[b] = "ok"]
               /\ UNCHANGED <<moduleBestBases, localStorage, storageThrows,
                              observed, race, queueDrawer>>
     ELSE ProbeRejects(k, b)

\* res.json() of a probe settles. The first good probe resolves promiseAny:
\* refreshModuleApiNode saves its mirror and returns it.
ProbeBody(k, b, body) ==
  /\ calls[k].kind = "refresh" /\ calls[k].req[b] = "body"
  /\ IF AttemptSucceeds(200, body)
     THEN IF calls[k].pc = "race"
          THEN LET saved == saveModuleBestBase(moduleBestBases, localStorage,
                                               calls[k].module, b, storageThrows)
               IN /\ RefreshReturned(
                       [calls EXCEPT ![k].req[b] = "ok", ![k].pc = "returned",
                                     ![k].winner = b, ![k].via = "race"],
                       saved[1], saved[2])
                  /\ UNCHANGED <<storageThrows, observed, race>>
          ELSE /\ calls' = [calls EXCEPT ![k].req[b] = "ok"]
               /\ UNCHANGED <<moduleBestBases, localStorage, storageThrows,
                              observed, race, queueDrawer>>
     ELSE ProbeRejects(k, b)

Next ==
  \/ \E k \in Calls, m \in Modules : StartRequest(k, m)
  \/ \E k \in Calls : FastFetchFails(k)
  \/ \E k \in Calls, s \in Statuses : FastHeaders(k, s)
  \/ \E k \in Calls, body \in Bodies : FastBody(k, body)
  \/ \E k \in Calls, b \in API_BASES : RaceFetchFails(k, b)
  \/ \E k \in Calls, b \in API_BASES, s \in Statuses : RaceHeaders(k, b, s)
  \/ \E k \in Calls, b \in API_BASES, body \in Bodies : RaceBody(k, b, body)
  \/ \E m \in Modules : ResetModule(m)
  \/ ResetAll
  \/ \E k \in Calls, m \in Modules : StartRefresh(k, m)
  \/ \E k \in Calls : StartRefreshAll(k)
  \/ \E k \in Calls, b \in API_BASES : ProbeFetchFails(k, b)
  \/ \E k \in Calls, b \in API_BASES, s \in Statuses : ProbeHeaders(k, b, s)
  \/ \E k \in Calls, b \in API_BASES, body \in Bodies : ProbeBody(k, b, body)

Spec == Init /\ [][Next]_vars

\* -------------------------------------------- classification of one attempt
\* Statuses and code values for the classification taken alone.
ManyStatuses == {200, 201, 204, 206, 299, 300, 304, 400, 404, 500}
ManyCodes == {0, 200, 201, 301, 400, 404, 500, 0 - 460}

\* One attempt against a mirror: the response and whether the client takes it
\* as a success.
Attempt(status, body) ==
  /\ observed.kind = "none"
  /\ observed' = [kind |-> "attempt", status |-> status, body |-> body,
                  accepted |-> AttemptSucceeds(status, body)]
  /\ UNCHANGED <<moduleBestBases, localStorage, calls, storageThrows, race, queueDrawer>>

\* Back to waiting for the next response.
Forget ==
  /\ observed.kind = "attempt"
  /\ observed' = NoObservation
  /\ UNCHANGED <<moduleBestBases, localStorage, calls, storageThrows, race, queueDrawer>>

NextClassify ==
  \/ \E s \in ManyStatuses, body \in BodiesOver(ManyCodes) : Attempt(s, body)
  \/ Forget

SpecClassify == Init /\ [][NextClassify]_vars

\* ------------------------------------------------- promiseAny taken alone
\* promiseAny over a list of n promises, called directly, by
\* refreshModuleApiNode over a pool of n mirrors, or by the loop of the race
\* path of fetchWithFailover over a pool of n mirrors. A promise is named by
\* its position and fulfils with a value named likewise.

\* allCandidates.slice(i, i + BATCH_SIZE) of a pool of n mirrors.
BatchOf(i, n) == {p \in Ops : p > i /\ p <= i + BATCH_SIZE /\ p <= n}

\* The promises of the promiseAny that record r is in.
Promises(r) ==
  IF r.caller = "request" THEN BatchOf(r.i, r.n) ELSE {p \in Ops : p <= r.n}

\* Fault: no check of promises.length === 0.
promiseAnyUnchecked(r, ps) ==
  [r EXCEPT !.state = "pending", !.rejectedCount = 0, !.errors = << >>,
            !.fulfilledOrder = << >>,
            !.op = [p \in Ops |-> IF p \in ps THEN "pending" ELSE r.op[p]]]

\* promiseAny(promises) up to its return: rejected at once if the list is
\* empty, pending otherwise with rejectedCount = 0 and errors = [].
promiseAny(r, ps) ==
  IF ps = {}
  THEN [r EXCEPT !.state = "rejected",
                 !.rejection = [message |-> "No promises provided",
                                errors |-> << >>]]
  ELSE [r EXCEPT !.state = "pending", !.rejectedCount = 0, !.errors = << >>,
                 !.fulfilledOrder = << >>,
                 !.op = [p \in Ops |-> IF p \in ps THEN "pending" ELSE r.op[p]]]

\* The for loop of fetchWithFailover from offset i over a pool of r.n
\* mirrors: promiseAny over the next batch, or the final throw.
LoopFrom(r, i) ==
  IF i < r.n
  THEN [promiseAny([r EXCEPT !.i = i], BatchOf(i, r.n)) EXCEPT !.outcome = "pending"]
  ELSE [r EXCEPT !.outcome = "thrown"]

\* What the caller does when its promiseAny is settled: refreshModuleApiNode
\* returns the winner or null, the loop returns the winner or goes on.
Settled(r) ==
  CASE r.state = "pending" -> [r EXCEPT !.outcome = "pending"]
    [] r.state = "fulfilled" ->
         [r EXCEPT !.outcome = IF r.caller = "promiseAny" THEN "fulfilled"
                               ELSE "returned"]
    [] r.state = "rejected" /\ r.caller = "promiseAny" ->
         [r EXCEPT !.outcome = "rejected"]
    [] r.state = "rejected" /\ r.caller = "refresh" ->
         [r EXCEPT !.outcome = "null"]
    [] r.state = "rejected" /\ r.caller = "request" ->
         LoopFrom(r, r.i + BATCH_SIZE)

\* promiseAny, refreshModuleApiNode or the race path is called with n
\* promises or mirrors.
CallRace(caller, n) ==
  /\ race.caller = "none"
  /\ LET r == [NoRace EXCEPT !.caller = caller, !.n = n]
     IN race' = IF caller = "request" THEN LoopFrom(r, 0)
                ELSE Settled(promiseAny(r, Promises(r)))
  /\ UNCHANGED <<moduleBestBases, localStorage, calls, storageThrows, observed,
                 queueDrawer>>

\* Fault: resolve is called for every fulfilment and the last one wins.
OpFulfilsLastWins(p) ==
  /\ race.op[p] = "pending"
  /\ race' = Settled([race EXCEPT !.op[p] = "fulfilled",
                                  !.fulfilledOrder = Append(@, p),
                                  !.state = "fulfilled", !.value = p])
  /\ UNCHANGED <<moduleBestBases, localStorage, calls, storageThrows, observed,
                 queueDrawer>>

\* Promise p fulfils: then(resolve) resolves promiseAny with its value if
\* promiseAny is still pending, and has no effect otherwise.
OpFulfils(p) ==
  /\ race.op[p] = "pending"
  /\ LET r == [race EXCEPT !.op[p] = "fulfilled", !.fulfilledOrder = Append(@, p)]
     IN race' = IF race.state = "pending"
                THEN Settled([r EXCEPT !.state = "fulfilled", !.value = p])
                ELSE r
  /\ UNCHANGED <<moduleBestBases, localStorage, calls, storageThrows, observed,
                 queueDrawer>>

\* Promise p rejects: the catch handler counts it, keeps its error in the
\* local array and, when every promise has rejected, rejects promiseAny with
\* new Error("All promises rejected").
OpRejects(p) ==
  /\ race.op[p] = "pending"
  /\ LET r == [race EXCEPT !.op[p] = "rejected", !.rejectedCount = @ + 1,
                           !.errors = Append(@, p)]
     IN race' = IF r.rejectedCount = Cardinality(Promises(race)) /\ race.state = "pending"
                THEN Settled([r EXCEPT !.state = "rejected",
                                       !.rejection = [message |-> "All promises rejected",
                                                      errors |-> << >>]])
                ELSE r
  /\ UNCHANGED <<moduleBestBases, localStorage, calls, storageThrows, observed,
                 queueDrawer>>

\* The caller has its result; the next call can be made.
ForgetRace ==
  /\ race.caller # "none"
  /\ race.state # "pending"
  /\ race' = NoRace
  /\ UNCHANGED <<moduleBestBases, localStorage, calls, storageThrows, observed,
                 queueDrawer>>

NextRace ==
  \/ \E caller \in {"promiseAny", "refresh", "request"}, n \in 0 .. MaxOps :
       CallRace(caller, n)
  \/ \E p \in Ops : OpFulfils(p)
  \/ \E p \in Ops : OpRejects(p)
  \/ ForgetRace

SpecRace == Init /\ [][NextRace]_vars

\* ------------------------------------------------- the load taken alone
\* A persisted empty string.
EmptyString == 0 - 1
\* What the localStorage key of a module may hold: nothing, an empty string,
\* a mirror of API_BASES, or a string that names no mirror of API_BASES.
StoredValues == {Null, EmptyString, NotInPool} \cup API_BASES

\* The loop of loadModuleBestBases over the modules.
LoadAll(store, throws) ==
  [m \in Modules |-> loadModuleBestBases(store[m], throws)]

\* Before the module is evaluated: a store left by an earlier session or an
\* earlier deployment, and nothing in memory.
InitLoad ==
  /\ storageThrows \in BOOLEAN
  /\ localStorage \in [Modules -> StoredValues]
  /\ moduleBestBases = [m \in Modules |-> Null]
  /\ calls = [k \in Calls |-> IdleCall]
  /\ observed = NoObservation
  /\ race = NoRace
  /\ queueDrawer = DrawerIdle

\* The module is evaluated: const moduleBestBases = loadModuleBestBases().
Load ==
  /\ observed.kind = "none"
  /\ moduleBestBases' = LoadAll(localStorage, storageThrows)
  /\ observed' = [NoObservation EXCEPT !.kind = "load"]
  /\ UNCHANGED <<localStorage, calls, storageThrows, race, queueDrawer>>

\* The page is closed: the memory is gone, the store stays.
Close ==
  /\ observed.kind = "load"
  /\ moduleBestBases' = [m \in Modules |-> Null]
  /\ observed' = NoObservation
  /\ UNCHANGED <<localStorage, calls, storageThrows, race, queueDrawer>>

NextLoad == Load \/ Close

SpecLoad == InitLoad /\ [][NextLoad]_vars

\* ------------------------------------------- the race path's batches alone
\* The sources hold two versions of fetchWithFailover that plan the race
\* path differently: services/musicApi.ts copies API_BASES as it is and uses
\* one TIMEOUT for the fast and for the raced requests; unnamed/part_005
\* sorts the copy with a random comparator at every call and uses 5000 ms
\* for the fast request and 8000 ms for the raced ones. A session runs one
\* version, with a pool of n mirrors and a batch size, and the variable
\* observed holds the plan of its race paths.
Versions == {"services/musicApi.ts", "unnamed/part_005"}

PoolSizes == 0 .. NumBases

BatchSizes == 1 .. NumBases

\* The orderings of n mirrors.
Orderings(n) == {o \in [1 .. n -> 1 .. n] : \A p, q \in 1 .. n : o[p] = o[q] => p = q}

\* const allCandidates = [...API_BASES], with .sort(() => Math.random() - 0.5)
\* in part_005: a comparator that answers at random leaves any ordering.
allCandidates(version, n) ==
  IF version = "services/musicApi.ts" THEN {[p \in 1 .. n |-> p]} ELSE Orderings(n)

\* The timeout of the fast request: TIMEOUT, or fetchWithTimeout(url, 5000).
FastTimeout(version) == IF version = "services/musicApi.ts" THEN 4500 ELSE 5000

\* The timeout of a raced request: TIMEOUT, or fetchWithTimeout(url, 8000).
RaceTimeout(version) == IF version = "services/musicApi.ts" THEN 4500 ELSE 8000

\* Fault: the slice starts at the beginning of the list.
SliceFromStart(candidates, i, size) ==
  SubSeq(candidates, 1, IF i + size < Len(candidates) THEN i + size ELSE Len(candidates))

\* allCandidates.slice(i, i + BATCH_SIZE), i counted from 0.
Slice(candidates, i, size) ==
  SubSeq(candidates, i + 1,
         IF i + size < Len(candidates) THEN i + size ELSE Len(candidates))

\* A session of one version that has run no request yet.
NoPlan(version, n, size) ==
  [kind |-> "session", version |-> version, n |-> n, size |-> size,
   started |-> FALSE, running |-> FALSE, exhausted |-> FALSE,
   order |-> << >>, i |-> 0, attempted |-> << >>, previous |-> << >>,
   fastTimeout |-> 0, raceTimeout |-> 0]

InitPlan ==
  /\ storageThrows = FALSE
  /\ localStorage = [m \in Modules |-> Null]
  /\ moduleBestBases = [m \in Modules |-> Null]
  /\ calls = [k \in Calls |-> IdleCall]
  /\ race = NoRace
  /\ queueDrawer = DrawerIdle
  /\ \E version \in Versions, n \in PoolSizes, size \in BatchSizes :
       observed = NoPlan(version, n, size)

\* A call with a cached mirror sends its fast request.
FastPath ==
  /\ ~observed.running
  /\ observed' = [observed EXCEPT !.fastTimeout = FastTimeout(observed.version)]
  /\ UNCHANGED <<moduleBestBases, localStorage, calls, storageThrows, race, queueDrawer>>

\* A call enters its race path: the candidates are listed and the loop takes
\* its first slice (with an empty pool the loop body never runs).
EnterRace(order) ==
  /\ ~observed.running
  /\ order \in allCandidates(observed.version, observed.n)
  /\ observed' = [observed EXCEPT
                    !.started = TRUE,
                    !.previous = IF observed.started THEN <<observed.order>> ELSE << >>,
                    !.order = order, !.i = 0,
                    !.raceTimeout = IF observed.n > 0 THEN RaceTimeout(observed.version)
                                    ELSE @,
                    !.attempted = IF observed.n > 0
                                  THEN <<Slice(order, 0, observed.size)>> ELSE << >>,
                    !.running = observed.n > 0,
                    !.exhausted = observed.n = 0]
  /\ UNCHANGED <<moduleBestBases, localStorage, calls, storageThrows, race, queueDrawer>>

\* promiseAny of the batch rejects: i += BATCH_SIZE and the loop test.
BatchFails ==
  /\ observed.running
  /\ LET i == observed.i + observed.size
     IN observed' = IF i < observed.n
                    THEN [observed EXCEPT
                            !.i = i,
                            !.attempted = Append(@, Slice(observed.order, i, observed.size))]
                    ELSE [observed EXCEPT !.i = i, !.running = FALSE, !.exhausted = TRUE]
  /\ UNCHANGED <<moduleBestBases, localStorage, calls, storageThrows, race, queueDrawer>>

\* promiseAny of the batch resolves: return result.
BatchWins ==
  /\ observed.running
  /\ observed' = [observed EXCEPT !.running = FALSE]
  /\ UNCHANGED <<moduleBestBases, localStorage, calls, storageThrows, race, queueDrawer>>

NextPlan ==
  \/ FastPath
  \/ \E order \in Orderings(observed.n) : EnterRace(order)
  \/ BatchFails
  \/ BatchWins

SpecPlan == InitPlan /\ [][NextPlan]_vars

\* ------------------------------------------------- a reset during a race
\* The requests and the resets of Spec, without the refreshes, in which one
\* reset that falls while a request call for the module has a raced request
\* under way is remembered in observed: the modules it cleared and the call
\* slots that were in use before it.
InUse == {k \in Calls : calls[k].pc # "idle"}

\* The request calls for module m that have a raced request under way.
Racing(m) ==
  {k \in Calls : /\ calls[k].kind = "request" /\ calls[k].module = m
                 /\ \E b \in API_BASES : Pending(calls[k].req[b])}

\* resetModuleApiNode(module) while a race for the module is under way.
ResetDuringRace(module) ==
  LET cleared == resetModuleApiNode(moduleBestBases, localStorage, module,
                                    storageThrows)
  IN /\ observed.kind = "none"
     /\ Racing(module) # {}
     /\ moduleBestBases' = cleared[1]
     /\ localStorage' = cleared[2]
     /\ observed' = [kind |-> "reset", modules |-> {module}, before |-> InUse]
     /\ UNCHANGED <<calls, storageThrows, race, queueDrawer>>

\* resetBestApiNode() while a race is under way.
ResetAllDuringRace ==
  LET cleared == resetBestApiNode(moduleBestBases, localStorage, storageThrows)
  IN /\ observed.kind = "none"
     /\ \E m \in Modules : Racing(m) # {}
     /\ moduleBestBases' = cleared[1]
     /\ localStorage' = cleared[2]
     /\ observed' = [kind |-> "reset", modules |-> Modules, before |-> InUse]
     /\ UNCHANGED <<calls, storageThrows, race, queueDrawer>>

NextReset ==
  \/ \E k \in Calls, m \in Modules : StartRequest(k, m)
  \/ \E k \in Calls : FastFetchFails(k)
  \/ \E k \in Calls, s \in Statuses : FastHeaders(k, s)
  \/ \E k \in Calls, body \in Bodies : FastBody(k, body)
  \/ \E k \in Calls, b \in API_BASES : RaceFetchFails(k, b)
  \/ \E k \in Calls, b \in API_BASES, s \in Statuses : RaceHeaders(k, b, s)
  \/ \E k \in Calls, b \in API_BASES, body \in Bodies : RaceBody(k, b, body)
  \/ \E m \in Modules : ResetModule(m)
  \/ ResetAll
  \/ \E m \in Modules : ResetDuringRace(m)
  \/ ResetAllDuringRace

SpecReset == Init /\ [][NextReset]_vars

\* ===================================================================== claims
\* Attempts of call record cr: the fast request and the raced requests.
RECURSIVE SentUpTo(_, _)
SentUpTo(cr, n) == IF n = 0 THEN 0 ELSE cr.sentRace[n] + SentUpTo(cr, n - 1)
Attempts(cr) == cr.sentFast + SentUpTo(cr, NumBases)

\* Requests of call record cr to mirror b.
Contacts(cr, b) ==
  cr.sentRace[b] + (IF cr.sentFast = 1 /\ cr.cachedBase = b THEN 1 ELSE 0)

\* Call k returns through the race path in this step.
ReturnsByRace(k) ==
  /\ calls[k].kind = "request"
  /\ calls[k].pc = "race"
  /\ calls'[k].pc = "returned"

\* The fast path of call k fails in this step.
FastPathFails(k) ==
  /\ calls[k].pc = "fast"
  /\ calls'[k].pc \notin {"fast", "returned"}

\* Call k fails for good in this step.
Exhausts(k) ==
  /\ calls[k].kind = "request"
  /\ calls[k].pc # "thrown"
  /\ calls'[k].pc = "thrown"

\* C1 (winner propagation): in the step in which a fetchWithFailover call
\* returns data obtained through the race path, the in-memory entry of its
\* module is the mirror whose response is returned.
C1_WinnerPropagation ==
  [][\A k \in Calls :
       ReturnsByRace(k) =>
         moduleBestBases'[calls[k].module] = calls'[k].winner]_vars

\* C2 (cache hit exclusivity): a call that returned from its fast path has
\* issued exactly one request, to the cached mirror, and raced no mirror.
C2_CacheHitExclusivity ==
  \A k \in Calls :
    calls[k].via = "fast" =>
      /\ Attempts(calls[k]) = 1
      /\ calls[k].winner = calls[k].cachedBase
      /\ \A b \in API_BASES : calls[k].req[b] = "none" /\ calls[k].sentRace[b] = 0

C2_Witness ==
  \E k \in Calls : calls[k].pc = "returned" /\ calls[k].via = "fast"

\* C3 (invalidation on fast-path failure): in the step in which the fast
\* request of a call fails, the in-memory entry of its module becomes absent,
\* no raced request of the call had been started before, and the raced
\* requests of the call are at most just started.
C3_InvalidationOnFastFailure ==
  [][\A k \in Calls :
       FastPathFails(k) =>
         /\ moduleBestBases'[calls[k].module] = Null
         /\ \A b \in API_BASES :
              /\ calls[k].sentRace[b] = 0
              /\ calls'[k].req[b] \in {"none", "headers"}]_vars

C3_Witness ==
  \E k \in Calls :
    /\ calls[k].fast = "fail" /\ calls[k].pc = "race"
    /\ moduleBestBases[calls[k].module] = Null
    /\ \E b \in API_BASES : calls[k].req[b] = "headers"

\* C4 (exhaustion error content): the error of a call that failed carries
\* one recorded failure per attempted mirror.
C4_ExhaustionErrorContent ==
  \A k \in Calls :
    calls[k].pc = "thrown" => Len(calls[k].thrownErrors) = Attempts(calls[k])

\* C5 (cache absent after exhaustion), as claimed: in the step in which a
\* call fails because every batch failed, the entry of its module is absent.
C5_AbsentAtExhaustion ==
  [][\A k \in Calls :
       Exhausts(k) => moduleBestBases'[calls[k].module] = Null]_vars

\* C5 as amended: a call that failed because every batch failed has not set
\* the entry of its module: the entry is absent, or it is a mirror that
\* answered successfully to another call for that module.
C5_FailedCallNeverSets ==
  \A k \in Calls :
    (calls[k].kind = "request" /\ calls[k].pc = "thrown") =>
      /\ \A b \in API_BASES : calls[k].req[b] # "ok"
      /\ \/ moduleBestBases[calls[k].module] = Null
         \/ \E j \in Calls \ {k} :
              /\ calls[j].module = calls[k].module
              /\ calls[j].req[moduleBestBases[calls[k].module]] = "ok"

C5_Witness ==
  \E k \in Calls :
    /\ calls[k].kind = "request" /\ calls[k].pc = "thrown"
    /\ calls[k].cachedBase # Null
    /\ moduleBestBases[calls[k].module] = Null

\* C6 (persistence follows the cache): every step that sets or invalidates
\* the entry of a module leaves its localStorage key equal to the entry.
C6_PersistenceFollowsCache ==
  [][\A m \in Modules :
       (moduleBestBases'[m] # moduleBestBases[m] \/ localStorage'[m] # localStorage[m])
         => localStorage'[m] = moduleBestBases'[m]]_vars

\* C7 (success classification): an attempt with a parsed body is taken as a
\* success exactly if the status is 2xx and the code field is absent or 200.
C7_SuccessClassification ==
  (observed.kind = "attempt" /\ observed.body.json) =>
    (observed.accepted <=>
       /\ ResOk(observed.status)
       /\ (~observed.body.hasCode \/ observed.body.code = 200))

\* C8 (no same-endpoint retry), as claimed: a call contacts each mirror at
\* most once.
C8_NoSameEndpointRetry ==
  \A k \in Calls : \A b \in API_BASES : Contacts(calls[k], b) <= 1

\* C8 as amended: a call sends at most one fast request and races each
\* mirror at most once; only the cached mirror whose fast request failed is
\* contacted a second time, in its batch of the race path.
C8_OnlyFastMirrorTwice ==
  \A k \in Calls : \A b \in API_BASES :
    /\ calls[k].sentRace[b] <= 1
    /\ calls[k].sentFast <= 1
    /\ Contacts(calls[k], b) > 1 =>
         /\ b = calls[k].cachedBase
         /\ calls[k].fast = "fail"
         /\ Contacts(calls[k], b) = 2

C8_Witness ==
  \E k \in Calls :
    /\ calls[k].kind = "request" /\ calls[k].fast = "fail"
    /\ calls[k].sentRace[calls[k].cachedBase] = 1
    /\ calls[k].i > 0

\* Call k (a request or a refresh) takes this step: it starts, or one of its
\* requests moves on.
Acts(k) ==
  \/ calls'[k].kind # calls[k].kind
  \/ calls'[k].fast # calls[k].fast
  \/ calls'[k].req # calls[k].req

\* A step of an operation on module a: a step of a request or of a refresh
\* for a, or resetModuleApiNode(a).
OperationOn(a) ==
  \/ ResetModule(a)
  \/ \E k \in Calls : Acts(k) /\ calls'[k].module = a

\* C9 (category isolation): no step of a request, a refresh or a reset of
\* module a changes the in-memory entry or the localStorage key of another
\* module.
C9_CategoryIsolation ==
  [][\A a \in Modules :
       OperationOn(a) =>
         \A b \in Modules \ {a} :
           ~OperationOn(b) =>
             /\ moduleBestBases'[b] = moduleBestBases[b]
             /\ localStorage'[b] = localStorage[b]]_vars

C9_Witness ==
  \E k \in Calls : \E b \in Modules \ {calls[k].module} :
    /\ calls[k].via = "race"
    /\ moduleBestBases[calls[k].module] = calls[k].winner
    /\ localStorage[calls[k].module] = calls[k].winner
    /\ moduleBestBases[b] \notin {Null, calls[k].winner}
    /\ localStorage[b] = moduleBestBases[b]

\* C10 (last write wins): in the step in which a call returns through the
\* race path after another call for the same module, racing at the same
\* time, has returned through its race path, the entry becomes its winner.
C10_LastWriteWins ==
  [][\A k \in Calls :
       (/\ ReturnsByRace(k)
        /\ \E j \in calls[k].overlap :
             /\ calls[j].kind = "request" /\ calls[j].via = "race"
             /\ calls[j].module = calls[k].module)
       => moduleBestBases'[calls[k].module] = calls'[k].winner]_vars
\* The timer of a request: armed by setTimeout when the request is sent,
\* cleared by clearTimeout as soon as fetch settles, that is when the response
\* headers have arrived; the body is read after that.
TimerArmed(phase) == phase = "headers"

\* C11 (per-attempt hard deadline): every request (fast, raced or probe) that
\* has not yet delivered a complete, parsed response has its timer armed, so
\* that the timeout aborts it.
C11_HardDeadline ==
  \A k \in Calls :
    /\ Pending(calls[k].fast) => TimerArmed(calls[k].fast)
    /\ \A b \in API_BASES : Pending(calls[k].req[b]) => TimerArmed(calls[k].req[b])

\* C12 (first success settles once and correctly): after every step, a
\* promiseAny over a non-empty list is fulfilled exactly if one of its
\* promises has fulfilled, its value is then the value of the promise that
\* fulfilled first, and it is rejected exactly if all its promises have
\* rejected; a step of a promise after the fulfilment changes neither the
\* state nor the value.
C12_FirstSuccessSettlesOnce ==
  [][/\ (race'.caller # "none" /\ Promises(race') # {}) =>
          /\ race'.state = "fulfilled" <=>
               \E p \in Promises(race') : race'.op[p] = "fulfilled"
          /\ race'.state = "fulfilled" =>
               /\ race'.value = Head(race'.fulfilledOrder)
               /\ race'.op[race'.value] = "fulfilled"
          /\ race'.state = "rejected" <=>
               \A p \in Promises(race') : race'.op[p] = "rejected"
     /\ (race.state = "fulfilled" /\ race'.caller # "none") =>
          /\ race'.state = "fulfilled"
          /\ race'.value = race.value
          /\ race'.outcome = race.outcome]_vars

C12_Witness ==
  /\ race.caller = "promiseAny" /\ race.n = MaxOps
  /\ race.state = "fulfilled" /\ race.value = 2
  /\ race.op[1] = "rejected" /\ race.op[3] = "fulfilled"

\* C13 (aggregate failure keeps every error): the failure of a promiseAny
\* whose promises have all rejected carries one error per promise.
C13_AggregateKeepsErrors ==
  (race.state = "rejected" /\ Promises(race) # {}) =>
    Len(race.rejection.errors) = Cardinality(Promises(race))

\* C14 (empty race fails at once): a promiseAny over an empty list is
\* rejected with its explicit error as soon as it is called, and is never
\* pending or fulfilled; refreshModuleApiNode over an empty pool has returned
\* null and the race path over an empty pool has thrown.
C14_EmptyRaceFailsAtOnce ==
  (race.caller # "none" /\ race.n = 0) =>
    /\ race.state \notin {"pending", "fulfilled"}
    /\ race.caller \in {"promiseAny", "refresh"} =>
         /\ race.state = "rejected"
         /\ race.rejection.message = "No promises provided"
    /\ race.caller = "promiseAny" => race.outcome = "rejected"
    /\ race.caller = "refresh" => race.outcome = "null"
    /\ race.caller = "request" => race.outcome = "thrown"

C14_Witness ==
  /\ race.caller = "refresh" /\ race.n = 0
  /\ race.state = "rejected" /\ race.outcome = "null"

\* refreshModuleApiNode is called in slot k in this step.
RefreshStarts(k) == calls[k].kind # "refresh" /\ calls'[k].kind = "refresh"

\* The refresh of slot k returns in this step.
RefreshReturns(k) ==
  /\ calls[k].kind = "refresh"
  /\ calls[k].pc = "race"
  /\ calls'[k].pc = "returned"

C16_RefreshSuccess ==
  [][\A k \in Calls :
       (RefreshReturns(k) /\ calls'[k].via = "race") =>
         /\ calls'[k].req[calls'[k].winner] = "ok"
         /\ moduleBestBases'[calls[k].module] = calls'[k].winner
         /\ localStorage'[calls[k].module] = calls'[k].winner]_vars

\* Mirror v is absent, or it answered successfully a request for module c
\* made by a call other than k.
AbsentOrSetByRequest(v, c, k) ==
  \/ v = Null
  \/ \E j \in Calls \ {k} :
       /\ calls'[j].kind = "request" /\ calls'[j].module = c
       /\ calls'[j].req[v] = "ok"

C18_LoadTimeValidation ==
  observed.kind = "load" =>
    \A m \in Modules :
      /\ moduleBestBases[m] =
           IF ~storageThrows /\ localStorage[m] \in API_BASES
           THEN localStorage[m] ELSE Null
      /\ \A other \in [Modules -> StoredValues] :
           other[m] = localStorage[m] =>
             LoadAll(other, storageThrows)[m] = moduleBestBases[m]

C18_Witness ==
  /\ observed.kind = "load" /\ ~storageThrows
  /\ localStorage["playlist"] = NotInPool /\ moduleBestBases["playlist"] = Null
  /\ localStorage["search"] = 2 /\ moduleBestBases["search"] = 2

\* The slots whose refresh is waiting for its probes.
RefreshesRunning == {k \in Calls : calls[k].kind = "refresh" /\ calls[k].pc = "race"}

\* C19 (refreshAll is sequential): at most one refresh is running at a time,
\* it is the refresh of the module shown as being refreshed, and while the
\* refresh-all loop has modules still to visit the refresh of the module it
\* is at is running and no refresh has been started after it.
C19_RefreshAllSequential ==
  /\ Cardinality(RefreshesRunning) <= 1
  /\ \A k \in RefreshesRunning : calls[k].module = queueDrawer.refreshingModule
  /\ queueDrawer.pending # << >> =>
       \E k \in RefreshesRunning :
         \A j \in Calls : j > k => calls[j].kind # "refresh"

C19_Witness ==
  /\ queueDrawer.pending = <<"search">>
  /\ calls[1].kind = "refresh" /\ calls[1].module = "playlist"
  /\ calls[1].pc = "race" /\ calls[1].req[1] = "fail" /\ calls[1].req[2] = "body"
  /\ calls[2].pc = "idle"

\* C20 (only exhaustion reaches the caller): a call that has failed has
\* raced every mirror of the pool and every raced request has failed, also
\* when its fast request had failed before; a call one of whose raced
\* requests has succeeded has returned, with the data of a mirror whose raced
\* request succeeded.
C20_OnlyExhaustionReachesCaller ==
  \A k \in Calls :
    calls[k].kind = "request" =>
      /\ calls[k].pc = "thrown" =>
           \A b \in API_BASES :
             calls[k].sentRace[b] = 1 /\ calls[k].req[b] = "fail"
      /\ (\E b \in API_BASES : calls[k].req[b] = "ok") =>
           /\ calls[k].pc = "returned" /\ calls[k].via = "race"
           /\ calls[k].req[calls[k].winner] = "ok"
      /\ (calls[k].fast = "fail" /\ calls[k].pc # "thrown") =>
           calls[k].pc \in {"race", "returned"}

C20_Witness ==
  \E k \in Calls :
    /\ calls[k].kind = "request" /\ calls[k].fast = "fail"
    /\ calls[k].pc = "returned" /\ calls[k].via = "race"
    /\ calls[k].i > 0
    /\ calls[k].winner # calls[k].cachedBase

\* The raced requests of call record cr that are sent and not finished.
Unfinished(cr) == {b \in API_BASES : Pending(cr.req[b])}

\* C21 (batches are strictly sequential): in a call that is in its race
\* path the unfinished requests are requests of the current batch, every
\* request of an earlier batch has failed and no request of a later batch
\* has been started; a call never has more than BATCH_SIZE raced requests
\* unfinished.
C21_BatchesSequential ==
  \A k \in Calls :
    calls[k].kind = "request" =>
      /\ Cardinality(Unfinished(calls[k])) <= BATCH_SIZE
      /\ calls[k].pc \in {"race", "returned"} =>
           /\ Unfinished(calls[k]) \subseteq Batch(calls[k].i)
           /\ \A b \in API_BASES :
                /\ b <= calls[k].i => calls[k].req[b] = "fail"
                /\ b > calls[k].i + BATCH_SIZE =>
                     calls[k].req[b] = "none" /\ calls[k].sentRace[b] = 0

C21_Witness ==
  \E k \in Calls :
    /\ calls[k].kind = "request" /\ calls[k].pc = "race" /\ calls[k].i > 0
    /\ \A b \in Batch(0) : calls[k].req[b] = "fail"
    /\ \E b \in Batch(calls[k].i) : Pending(calls[k].req[b])

\* C22 (stop at the first winning batch): a call that has returned through
\* its race path returned the data of a mirror of the batch it was at, whose
\* request succeeded, and it has started no request to a mirror of a later
\* batch, then or afterwards.
C22_StopAtFirstWinningBatch ==
  \A k \in Calls :
    (calls[k].kind = "request" /\ calls[k].via = "race") =>
      /\ calls[k].pc = "returned"
      /\ calls[k].winner \in Batch(calls[k].i)
      /\ calls[k].req[calls[k].winner] = "ok"
      /\ \A b \in API_BASES :
           b > calls[k].i + BATCH_SIZE =>
             calls[k].req[b] = "none" /\ calls[k].sentRace[b] = 0

C22_Witness ==
  \E k \in Calls :
    /\ calls[k].kind = "request" /\ calls[k].via = "race" /\ calls[k].i = 0
    /\ \A b \in Batch(0) : calls[k].req[b] \in {"ok", "fail"}
    /\ \E b \in API_BASES : b > BATCH_SIZE /\ calls[k].req[b] = "none"

\* C23 (losers are not cancelled): the step in which a race is won, by a
\* raced request of fetchWithFailover or by a probe of refreshModuleApiNode,
\* leaves every other request of that race as it was; none is aborted.
C23_LosersNotCancelled ==
  [][\A k \in Calls :
       (calls[k].pc = "race" /\ calls'[k].pc = "returned" /\ calls'[k].via = "race") =>
         \A b \in API_BASES \ {calls'[k].winner} :
           calls'[k].req[b] = calls[k].req[b]]_vars

C23_Witness ==
  \E k \in Calls : \E b \in API_BASES \ {calls[k].winner} :
    /\ calls[k].pc = "returned" /\ calls[k].via = "race"
    /\ calls[k].req[b] = "ok"

\* The timers of fetchWithTimeout and of the probes: a request that is still
\* waiting for its response headers when its 4500 ms have passed is aborted.
\* Nothing makes a mirror answer, nor finish a body it has begun to send.
TimersFire ==
  /\ \A k \in Calls : WF_vars(FastFetchFails(k))
  /\ \A k \in Calls, b \in API_BASES :
       WF_vars(RaceFetchFails(k, b)) /\ WF_vars(ProbeFetchFails(k, b))

SpecTimed == Init /\ [][Next]_vars /\ TimersFire

\* C24 (every call terminates): whatever the mirrors do, a call of
\* fetchWithFailover or of refreshModuleApiNode that has started eventually
\* returns or throws.
C24_EveryCallTerminates ==
  \A k \in Calls :
    (calls[k].pc \in {"fast", "race"}) ~> (calls[k].pc \in {"returned", "thrown"})

RECURSIVE Flatten(_)
\* The batches of a list, one after the other.
Flatten(batches) ==
  IF batches = << >> THEN << >> ELSE Head(batches) \o Flatten(Tail(batches))

\* C25 (batches partition the pool): for every pool size and batch size the
\* candidates are the pool's mirrors, each once; the batches attempted so far
\* are, one after the other, the beginning of the candidate list, none is
\* empty, none has more than the batch size, and a race path that exhausts
\* the pool has attempted exactly the whole list.
C25_BatchesPartitionPool ==
  (observed.kind = "session" /\ observed.started) =>
    LET done == Flatten(observed.attempted)
    IN /\ observed.order \in Orderings(observed.n)
       /\ Len(done) <= observed.n
       /\ done = SubSeq(observed.order, 1, Len(done))
       /\ \A j \in 1 .. Len(observed.attempted) :
            /\ observed.attempted[j] # << >>
            /\ Len(observed.attempted[j]) <= observed.size
       /\ observed.exhausted => done = observed.order

C25_Witness ==
  /\ observed.kind = "session" /\ observed.exhausted
  /\ observed.version = "unnamed/part_005"
  /\ observed.n = NumBases /\ observed.size = 2
  /\ observed.order[1] # 1
  /\ Len(observed.attempted) = (NumBases + 1) \div 2

\* C26 (stable batch ordering): two race paths of the same session list the
\* candidates in the same order.
C26_StableBatchOrdering ==
  (observed.kind = "session" /\ observed.previous # << >>) =>
    observed.order = observed.previous[1]

\* C27 (deadline asymmetry): the timeout of the fast request is strictly
\* shorter than the timeout of a raced request.
C27_DeadlineAsymmetry ==
  (observed.kind = "session" /\ observed.fastTimeout > 0 /\ observed.raceTimeout > 0) =>
    observed.fastTimeout < observed.raceTimeout

\* C28 (cached values are proven endpoints): every entry of the memory is
\* absent or a mirror of the pool, and a step that writes a mirror into the
\* entry of a module is a step in which a call for that module gets the
\* successful response of its request to that mirror.
C28_CachedValuesProven ==
  /\ [](\A m \in Modules : moduleBestBases[m] \in API_BASES \cup {Null})
  /\ [][\A m \in Modules :
          (moduleBestBases'[m] # moduleBestBases[m] /\ moduleBestBases'[m] # Null) =>
            \E k \in Calls :
              /\ calls[k].module = m
              /\ calls[k].req[moduleBestBases'[m]] = "body"
              /\ calls'[k].req[moduleBestBases'[m]] = "ok"]_vars

C28_Witness ==
  \E k, j \in Calls :
    /\ calls[k].kind = "request" /\ calls[k].via = "race"
    /\ moduleBestBases[calls[k].module] = calls[k].winner
    /\ calls[j].kind = "refresh" /\ calls[j].via = "race"
    /\ moduleBestBases[calls[j].module] = calls[j].winner

\* C29 (invalidation hits only the endpoint that failed): the step in which
\* the fast request of a call fails, while the entry of its module holds a
\* mirror other than the one the call asked, leaves that entry as it is.
C29_InvalidationHitsOnlyFailed ==
  [][\A k \in Calls :
       (/\ FastPathFails(k)
        /\ moduleBestBases[calls[k].module] \notin {Null, calls[k].cachedBase}) =>
         moduleBestBases'[calls[k].module] = moduleBestBases[calls[k].module]]_vars

\* A call started after the remembered reset has found a winner for module m.
WonSinceReset(m) ==
  \E j \in Calls \ observed.before :
    calls[j].module = m /\ calls[j].via = "race"

\* C30 (reset is durable against stale races): after a reset of a module,
\* as long as no call started after the reset has found a winner for it, no
\* step of a call started before the reset fills the entry of the module,
\* in memory or in the store.
C30_ResetDurable ==
  [][\A m \in Modules :
       (/\ observed.kind = "reset" /\ m \in observed.modules
        /\ ~WonSinceReset(m)
        /\ \E k \in observed.before : Acts(k)) =>
         /\ moduleBestBases[m] = Null => moduleBestBases'[m] = Null
         /\ localStorage[m] = Null => localStorage'[m] = Null]_vars
====
